---- MODULE Spec2Model ----
(***************************************************************************)
(* The concurrent build-and-profile pipeline of amixis.py: main() creates  *)
(* one thread per Build running _run_all, and then runs                    *)
(* JobsInformer.inform() on the main thread.  Threads interleave at the    *)
(* granularity of the statements below; `with self.lock:` and the          *)
(* read-modify-write `self.alive_workers += 1` are separate steps.         *)
(***************************************************************************)
EXTENDS Integers, Sequences, FiniteSets, TLC

\* Largest number of builds parse_config puts into project.builds.
MaxBuilds == 2

\* Largest number of iterations of the loop of JobsInformer.inform() followed.
MaxTicks == 2

VARIABLES
    mode,           \* "pipeline": no -a/-b/-p flag given; "flag": one of them given
    pc,             \* position of the main thread inside main()
    builds,         \* project.builds, a sequence of build ids
    wpc,            \* wpc[w]: position of the thread running _run_all for builds[w]
    lock,           \* informer.lock: the worker holding it, or NoOwner
    alive_workers,  \* informer.alive_workers
    reg,            \* reg[w]: the value worker w loaded in `alive_workers += 1 / -= 1`
    calls,          \* calls[w]: the collaborator calls worker w made, with their results
    profiled,       \* profiled[w]: the Build worker w's Profiler was constructed with
    ret,            \* ret[w]: the source line of the decrement_workers call w reached
    verdict,        \* verdict[b]: how the profiling collaborator answers for build b
    renders,        \* calls of informer.inform_function made by inform()
    ticks,          \* iterations of the while loop of inform() entered
    status,         \* the value main() returned, NoStatus before
    screen,         \* the terminal buffer shown: "primary" or "secondary"
    term,           \* what main() itself wrote to the terminal, in order
    config_file,    \* the configuration file main() hands to parse_config: "exists" or "missing"
    exit_code,      \* the exit status of the process, NoStatus while it runs
    counter,        \* printer.counter: the spinner index of each build
    build_message,  \* printer.build_message: the last message of each build
    shown,          \* the lines print_data drew last, <<>> before the first render
    sreg,           \* sreg[w]: the step() call worker w's collaborator is inside, or NoStep
    hist,           \* hist[i]: the values counter[i] has taken, in order
    writers         \* writers[i]: the workers that wrote counter[i] or build_message[i]

\* The state of the process around main(), and the state of PrintToStdout.
process == <<config_file, exit_code>>
display == <<counter, build_message, shown, sreg, hist, writers>>

vars == <<mode, pc, builds, wpc, lock, alive_workers, reg, calls, profiled, ret,
          verdict, renders, ticks, status, screen, term, process, display>>

NoOwner == 0
NoStatus == -1
NoBuild == 0
NoLine == 0

Workers == 1..Len(builds)

\* The line of the `informer.decrement_workers()` a failed check leads to.
LineTest == 307
LineTime == 311
LinePerf == 315
LineEnd == 318

(***************************************************************************)
(* The profiling collaborator (amphimixis.Profiler).  verdict[b] is the    *)
(* check that answers false for build b, "none" when all answer true, and  *)
(* "any" when each call may answer either way.                             *)
(***************************************************************************)
ProfilerResult(b, stage) ==
    IF verdict[b] = "any" THEN BOOLEAN ELSE {verdict[b] # stage}

(***************************************************************************)
(* PrintToStdout                                                           *)
(***************************************************************************)
\* PrintToStdout.symbols
Symbols == <<"/", "-", "\\", "|", "/", "-", "\\", "|">>

\* No step() call in progress.
NoStep == [stage |-> "none", val |-> 0]

\* self.build_id_to_index[build_id], filled by enumerate(project.builds): a later
\* build of the same id overwrites the entry.  Indices count from 1 here.
BuildIdToIndex(build_id) ==
    CHOOSE i \in 1..Len(builds) :
        /\ builds[i] = build_id
        /\ \A j \in (i + 1)..Len(builds) : builds[j] # build_id

\* What print_data draws after os.system("clear"): one line per build of
\* project.builds, in order.
PrintData ==
    [i \in 1..Len(builds) |->
        [build_id |-> builds[i],
         symbol |-> Symbols[counter[BuildIdToIndex(builds[i])] + 1],
         message |-> build_message[BuildIdToIndex(builds[i])]]]

(***************************************************************************)
(* JobsInformer                                                            *)
(***************************************************************************)
CanAcquire_NoMutex(w) == TRUE

\* threading.Lock: `with self.lock:` enters only when no thread holds the lock.
CanAcquire(w) == lock = NoOwner

\* `with self.lock:` of increment_workers / decrement_workers, entered.
Acquire(w, from, to) ==
    /\ wpc[w] = from
    /\ CanAcquire(w)
    /\ lock' = w
    /\ wpc' = [wpc EXCEPT ![w] = to]
    /\ UNCHANGED <<mode, pc, builds, alive_workers, reg, calls, profiled, ret,
                   verdict, renders, ticks, status, screen, term,
                   process, display>>

\* The read of self.alive_workers in `+= 1` / `-= 1`.
Load(w, from, to) ==
    /\ wpc[w] = from
    /\ reg' = [reg EXCEPT ![w] = alive_workers]
    /\ wpc' = [wpc EXCEPT ![w] = to]
    /\ UNCHANGED <<mode, pc, builds, lock, alive_workers, calls, profiled, ret,
                   verdict, renders, ticks, status, screen, term,
                   process, display>>

\* The write of self.alive_workers in `+= 1` / `-= 1`; the loaded value is a
\* temporary of the statement and is gone after it.
Store(w, from, to, delta) ==
    /\ wpc[w] = from
    /\ alive_workers' = reg[w] + delta
    /\ reg' = [reg EXCEPT ![w] = 0]
    /\ wpc' = [wpc EXCEPT ![w] = to]
    /\ UNCHANGED <<mode, pc, builds, lock, calls, profiled, ret,
                   verdict, renders, ticks, status, screen, term,
                   process, display>>

\* The end of the `with self.lock:` block.
Release(w, from, to) ==
    /\ wpc[w] = from
    /\ lock' = NoOwner
    /\ wpc' = [wpc EXCEPT ![w] = to]
    /\ UNCHANGED <<mode, pc, builds, alive_workers, reg, calls, profiled, ret,
                   verdict, renders, ticks, status, screen, term,
                   process, display>>

IncAcquire(w) == Acquire(w, "inc_acquire", "inc_load")
IncLoad(w) == Load(w, "inc_load", "inc_store")
IncStore(w) == Store(w, "inc_store", "inc_release", 1)

IncRelease_KeepsLock(w) ==
    /\ wpc[w] = "inc_release"
    /\ wpc' = [wpc EXCEPT ![w] = "build"]
    /\ UNCHANGED <<mode, pc, builds, lock, alive_workers, reg, calls, profiled,
                   ret, verdict, renders, ticks, status, screen, term,
                   process, display>>

IncRelease(w) == Release(w, "inc_release", "build")

DecAcquire(w) == Acquire(w, "dec_acquire", "dec_load")
DecLoad(w) == Load(w, "dec_load", "dec_store")
DecStore(w) == Store(w, "dec_store", "dec_release", -1)

DecRelease_NoReturn(w) ==
    Release(w, "dec_release",
            IF ret[w] = LineTest THEN "execution_time"
            ELSE IF ret[w] = LineTime THEN "perf_stat_collect" ELSE "done")

\* decrement_workers() returns; every call of it in _run_all is followed by the
\* return of _run_all.
DecRelease(w) == Release(w, "dec_release", "done")

(***************************************************************************)
(* _run_all                                                                *)
(***************************************************************************)
Called(w, op, ok) == [calls EXCEPT ![w] = Append(@, [op |-> op, ok |-> ok])]

\* The Build handed to Profiler(...) in _run_all: project.builds[0].
ProfilerBuild(w) == builds[1]

\* Builder.build_for_linux(project, build, printer) returns, and the Profiler is
\* constructed.
BuildReturns(w) ==
    /\ wpc[w] = "build"
    /\ calls' = Called(w, "build_for_linux", TRUE)
    /\ profiled' = [profiled EXCEPT ![w] = ProfilerBuild(w)]
    /\ wpc' = [wpc EXCEPT ![w] = "test_executable"]
    /\ UNCHANGED <<mode, pc, builds, lock, alive_workers, reg, ret,
                   verdict, renders, ticks, status, screen, term,
                   process, display>>

\* Builder.build_for_linux raises: the exception ends the thread (threading's
\* excepthook prints it); nothing of _run_all after line 304 runs.
BuildRaises(w) ==
    /\ wpc[w] = "build"
    /\ calls' = Called(w, "build_for_linux", FALSE)
    /\ wpc' = [wpc EXCEPT ![w] = "raised"]
    /\ UNCHANGED <<mode, pc, builds, lock, alive_workers, reg, profiled, ret,
                   verdict, renders, ticks, status, screen, term,
                   process, display>>

\* One profiling check: `if not profiler_.<stage>(): decrement; return`.
Check(w, stage, next, line) ==
    /\ wpc[w] = stage
    /\ \E ok \in ProfilerResult(profiled[w], stage) :
          /\ calls' = Called(w, stage, ok)
          /\ wpc' = [wpc EXCEPT ![w] = IF ok THEN next ELSE "dec_acquire"]
          /\ ret' = [ret EXCEPT ![w] = IF ok THEN @ ELSE line]
    /\ UNCHANGED <<mode, pc, builds, lock, alive_workers, reg, profiled,
                   verdict, renders, ticks, status, screen, term,
                   process, display>>

TestExecutable_FallThrough(w) ==
    /\ wpc[w] = "test_executable"
    /\ \E ok \in ProfilerResult(profiled[w], "test_executable") :
          calls' = Called(w, "test_executable", ok)
    /\ wpc' = [wpc EXCEPT ![w] = "execution_time"]
    /\ UNCHANGED <<mode, pc, builds, lock, alive_workers, reg, profiled, ret,
                   verdict, renders, ticks, status, screen, term,
                   process, display>>

TestExecutable(w) == Check(w, "test_executable", "execution_time", LineTest)

ExecutionTime_NoDecrement(w) ==
    /\ wpc[w] = "execution_time"
    /\ \E ok \in ProfilerResult(profiled[w], "execution_time") :
          /\ calls' = Called(w, "execution_time", ok)
          /\ wpc' = [wpc EXCEPT ![w] = IF ok THEN "perf_stat_collect" ELSE "done"]
          /\ ret' = [ret EXCEPT ![w] = IF ok THEN @ ELSE LineTime]
    /\ UNCHANGED <<mode, pc, builds, lock, alive_workers, reg, profiled,
                   verdict, renders, ticks, status, screen, term,
                   process, display>>

ExecutionTime(w) == Check(w, "execution_time", "perf_stat_collect", LineTime)

PerfStatCollect_NoDecrement(w) ==
    /\ wpc[w] = "perf_stat_collect"
    /\ \E ok \in ProfilerResult(profiled[w], "perf_stat_collect") :
          /\ calls' = Called(w, "perf_stat_collect", ok)
          /\ ret' = [ret EXCEPT ![w] = IF ok THEN LineEnd ELSE LinePerf]
          /\ wpc' = [wpc EXCEPT ![w] = IF ok THEN "dec_acquire" ELSE "done"]
    /\ UNCHANGED <<mode, pc, builds, lock, alive_workers, reg, profiled,
                   verdict, renders, ticks, status, screen, term,
                   process, display>>

\* The last check: both outcomes lead to a decrement and the end of _run_all.
PerfStatCollect(w) ==
    /\ wpc[w] = "perf_stat_collect"
    /\ \E ok \in ProfilerResult(profiled[w], "perf_stat_collect") :
          /\ calls' = Called(w, "perf_stat_collect", ok)
          /\ ret' = [ret EXCEPT ![w] = IF ok THEN LineEnd ELSE LinePerf]
    /\ wpc' = [wpc EXCEPT ![w] = "dec_acquire"]
    /\ UNCHANGED <<mode, pc, builds, lock, alive_workers, reg, profiled,
                   verdict, renders, ticks, status, screen, term,
                   process, display>>

(***************************************************************************)
(* The progress reports of a worker.  _run_all hands the printer to        *)
(* Builder.build_for_linux together with the worker's build, and to        *)
(* Profiler together with project.builds[0]; each collaborator reports     *)
(* with the build_id of the build it was given.  step() reads the frame    *)
(* index and writes it back in two steps of the thread, with no lock.      *)
(***************************************************************************)
Messages == {"Building", "Profiling"}

\* The message a collaborator posts during a stage.
StageMessage(stage) == IF stage = "build" THEN "Building" ELSE "Profiling"

\* The positions of _run_all inside a collaborator call.
StagePcs == {"build", "test_executable", "execution_time", "perf_stat_collect"}

\* The build_id a collaborator reports with during a stage.
ReportedBuild(w, stage) == IF stage = "build" THEN builds[w] ELSE profiled[w]

\* step(build_id), first half: self.counter[index] is read.
StepLoad(w) ==
    /\ wpc[w] \in StagePcs
    /\ sreg' = [sreg EXCEPT ![w] =
                  [stage |-> wpc[w],
                   val |-> counter[BuildIdToIndex(ReportedBuild(w, wpc[w]))]]]
    /\ wpc' = [wpc EXCEPT ![w] = "step_store"]
    /\ UNCHANGED <<mode, pc, builds, lock, alive_workers, reg, calls, profiled,
                   ret, verdict, renders, ticks, status, screen, term,
                   process, counter, build_message, shown, hist, writers>>

StepStore_NoWrap(w) ==
    /\ wpc[w] = "step_store"
    /\ LET i == BuildIdToIndex(ReportedBuild(w, sreg[w].stage))
           v == sreg[w].val + 1
       IN /\ counter' = [counter EXCEPT ![i] = v]
          /\ hist' = [hist EXCEPT ![i] = Append(@, v)]
          /\ writers' = [writers EXCEPT ![i] = @ \cup {w}]
    /\ wpc' = [wpc EXCEPT ![w] = sreg[w].stage]
    /\ sreg' = [sreg EXCEPT ![w] = NoStep]
    /\ UNCHANGED <<mode, pc, builds, lock, alive_workers, reg, calls, profiled,
                   ret, verdict, renders, ticks, status, screen, term,
                   process, build_message, shown>>

\* step(build_id), second half: (value read + 1) % len(self.symbols) is stored,
\* and the collaborator goes on.
StepStore(w) ==
    /\ wpc[w] = "step_store"
    /\ LET i == BuildIdToIndex(ReportedBuild(w, sreg[w].stage))
           v == (sreg[w].val + 1) % Len(Symbols)
       IN /\ counter' = [counter EXCEPT ![i] = v]
          /\ hist' = [hist EXCEPT ![i] = Append(@, v)]
          /\ writers' = [writers EXCEPT ![i] = @ \cup {w}]
    /\ wpc' = [wpc EXCEPT ![w] = sreg[w].stage]
    /\ sreg' = [sreg EXCEPT ![w] = NoStep]
    /\ UNCHANGED <<mode, pc, builds, lock, alive_workers, reg, calls, profiled,
                   ret, verdict, renders, ticks, status, screen, term,
                   process, build_message, shown>>

PrinterPrint_AllBuilds(w) ==
    /\ wpc[w] \in StagePcs
    /\ build_message' = [i \in 1..Len(builds) |-> StageMessage(wpc[w])]
    /\ writers' = [writers EXCEPT
                      ![BuildIdToIndex(ReportedBuild(w, wpc[w]))] = @ \cup {w}]
    /\ UNCHANGED <<mode, pc, builds, wpc, lock, alive_workers, reg, calls,
                   profiled, ret, verdict, renders, ticks, status, screen, term,
                   process, counter, shown, sreg, hist>>

\* print(build_id, message): one store into self.build_message.
PrinterPrint(w) ==
    /\ wpc[w] \in StagePcs
    /\ LET i == BuildIdToIndex(ReportedBuild(w, wpc[w]))
       IN /\ build_message' = [build_message EXCEPT ![i] = StageMessage(wpc[w])]
          /\ writers' = [writers EXCEPT ![i] = @ \cup {w}]
    /\ UNCHANGED <<mode, pc, builds, wpc, lock, alive_workers, reg, calls,
                   profiled, ret, verdict, renders, ticks, status, screen, term,
                   process, counter, shown, sreg, hist>>

(***************************************************************************)
(* main                                                                    *)
(***************************************************************************)
\* _secondary_buffer(), then the test of the flags at the head of the try block.
SecondaryBuffer ==
    /\ pc = "secondary_buffer"
    /\ screen' = "secondary"
    /\ term' = Append(term, "secondary")
    /\ pc' = IF mode = "pipeline" THEN "analyze" ELSE "return"
    /\ UNCHANGED <<mode, builds, wpc, lock, alive_workers, reg, calls, profiled,
                   ret, verdict, renders, ticks, status,
                   process, display>>

\* analyze(project) returns.
Analyze ==
    /\ pc = "analyze"
    /\ pc' = "parse_config"
    /\ UNCHANGED <<mode, builds, wpc, lock, alive_workers, reg, calls, profiled,
                   ret, verdict, renders, ticks, status, screen, term,
                   process, display>>

\* analyze or parse_config raises one of the exceptions main() catches.
CollaboratorRaises ==
    /\ pc \in {"analyze", "parse_config"}
    /\ pc' = "except"
    /\ UNCHANGED <<mode, builds, wpc, lock, alive_workers, reg, calls, profiled,
                   ret, verdict, renders, ticks, status, screen, term,
                   process, display>>

\* The state main() builds from n configured builds: project.builds filled by
\* parse_config, then PrintToStdout, JobsInformer and one Thread per build.
Configured(n, v) ==
    /\ builds' = [i \in 1..n |-> i]
    /\ verdict' = [i \in 1..n |-> v]
    /\ wpc' = [i \in 1..n |-> "created"]
    /\ reg' = [i \in 1..n |-> 0]
    /\ calls' = [i \in 1..n |-> <<>>]
    /\ profiled' = [i \in 1..n |-> NoBuild]
    /\ ret' = [i \in 1..n |-> NoLine]
    /\ counter' = [i \in 1..n |-> 0]
    /\ build_message' = [i \in 1..n |-> "None"]
    /\ sreg' = [i \in 1..n |-> NoStep]
    /\ hist' = [i \in 1..n |-> <<0>>]
    /\ writers' = [i \in 1..n |-> {}]

\* parse_config fills project.builds; main creates the printer, the informer and
\* the threads.
ParseConfig ==
    /\ pc = "parse_config"
    /\ config_file = "exists"
    /\ \E n \in 0..MaxBuilds : Configured(n, "any")
    /\ pc' = "start_threads"
    /\ UNCHANGED <<mode, lock, alive_workers, renders, ticks, status, screen, term,
                   process, shown>>

\* `for thread in threads: thread.start()`, one thread per step, in order.
StartThread ==
    /\ pc = "start_threads"
    /\ \E w \in Workers :
          /\ wpc[w] = "created"
          /\ \A v \in Workers : v < w => wpc[v] # "created"
          /\ wpc' = [wpc EXCEPT ![w] = "inc_acquire"]
    /\ UNCHANGED <<mode, pc, builds, lock, alive_workers, reg, calls, profiled,
                   ret, verdict, renders, ticks, status, screen, term,
                   process, display>>

Sleep_BeforeAllStarted ==
    /\ pc = "start_threads"
    /\ pc' = "inform_check"
    /\ UNCHANGED <<mode, builds, wpc, lock, alive_workers, reg, calls, profiled,
                   ret, verdict, renders, ticks, status, screen, term,
                   process, display>>

\* All threads are started: time.sleep(0.2).
Sleep ==
    /\ pc = "start_threads"
    /\ \A w \in Workers : wpc[w] # "created"
    /\ pc' = "inform_check"
    /\ UNCHANGED <<mode, builds, wpc, lock, alive_workers, reg, calls, profiled,
                   ret, verdict, renders, ticks, status, screen, term,
                   process, display>>

\* `while self.alive_workers > 0:` read without the lock.
InformCheck ==
    /\ pc = "inform_check"
    /\ IF alive_workers > 0
          THEN /\ ticks < MaxTicks
               /\ ticks' = ticks + 1
               /\ pc' = "inform_render"
          ELSE /\ ticks' = ticks
               /\ pc' = "final_render"
    /\ UNCHANGED <<mode, builds, wpc, lock, alive_workers, reg, calls, profiled,
                   ret, verdict, renders, status, screen, term,
                   process, display>>

InformRender_Advances ==
    /\ pc = "inform_render"
    /\ renders' = renders + 1
    /\ shown' = PrintData
    /\ counter' = [i \in 1..Len(builds) |-> (counter[i] + 1) % Len(Symbols)]
    /\ pc' = "inform_sleep"
    /\ UNCHANGED <<mode, builds, wpc, lock, alive_workers, reg, calls, profiled,
                   ret, verdict, ticks, status, screen, term,
                   process, build_message, sreg, hist, writers>>

\* self.inform_function() inside the loop.
InformRender ==
    /\ pc = "inform_render"
    /\ renders' = renders + 1
    /\ shown' = PrintData
    /\ pc' = "inform_sleep"
    /\ UNCHANGED <<mode, builds, wpc, lock, alive_workers, reg, calls, profiled,
                   ret, verdict, ticks, status, screen, term,
                   process, counter, build_message, sreg, hist, writers>>

\* time.sleep(self.delay)
InformSleep ==
    /\ pc = "inform_sleep"
    /\ pc' = "inform_check"
    /\ UNCHANGED <<mode, builds, wpc, lock, alive_workers, reg, calls, profiled,
                   ret, verdict, renders, ticks, status, screen, term,
                   process, display>>

FinalRender_Skipped ==
    /\ pc = "final_render"
    /\ pc' = "return"
    /\ UNCHANGED <<mode, builds, wpc, lock, alive_workers, reg, calls, profiled,
                   ret, verdict, renders, ticks, status, screen, term,
                   process, display>>

\* self.inform_function() after the loop; inform() returns.
FinalRender ==
    /\ pc = "final_render"
    /\ renders' = renders + 1
    /\ shown' = PrintData
    /\ pc' = "return"
    /\ UNCHANGED <<mode, builds, wpc, lock, alive_workers, reg, calls, profiled,
                   ret, verdict, ticks, status, screen, term,
                   process, counter, build_message, sreg, hist, writers>>

\* `return 0`
Return ==
    /\ pc = "return"
    /\ status' = 0
    /\ pc' = "returned"
    /\ UNCHANGED <<mode, builds, wpc, lock, alive_workers, reg, calls, profiled,
                   ret, verdict, renders, ticks, screen, term,
                   process, display>>

Except_ReturnsZero ==
    /\ pc = "except"
    /\ screen' = "primary"
    /\ term' = term \o <<"primary", "error">>
    /\ status' = 0
    /\ pc' = "returned"
    /\ UNCHANGED <<mode, builds, wpc, lock, alive_workers, reg, calls, profiled,
                   ret, verdict, renders, ticks,
                   process, display>>

Except_PrintsFirst ==
    /\ pc = "except"
    /\ screen' = "primary"
    /\ term' = term \o <<"error", "primary">>
    /\ status' = 1
    /\ pc' = "returned"
    /\ UNCHANGED <<mode, builds, wpc, lock, alive_workers, reg, calls, profiled,
                   ret, verdict, renders, ticks,
                   process, display>>

\* The except clause: _primary_buffer(), print(f"Error: {e}"), return 1.
Except ==
    /\ pc = "except"
    /\ screen' = "primary"
    /\ term' = term \o <<"primary", "error">>
    /\ status' = 1
    /\ pc' = "returned"
    /\ UNCHANGED <<mode, builds, wpc, lock, alive_workers, reg, calls, profiled,
                   ret, verdict, renders, ticks,
                   process, display>>

(***************************************************************************)
(* The process: the __main__ block around main(), and the parts of main()  *)
(* before the terminal is switched.                                        *)
(***************************************************************************)
\* atexit.register(_primary_buffer), then main() is entered and parses its
\* arguments.
RegisterAtexit ==
    /\ pc = "register"
    /\ pc' = "main"
    /\ UNCHANGED <<mode, builds, wpc, lock, alive_workers, reg, calls, profiled,
                   ret, verdict, renders, ticks, status, screen, term,
                   process, display>>

ValidateReturns_NoExit ==
    /\ pc = "main"
    /\ mode = "validate"
    /\ term' = Append(term, "correct")
    /\ pc' = "secondary_buffer"
    /\ UNCHANGED <<mode, builds, wpc, lock, alive_workers, reg, calls, profiled,
                   ret, verdict, renders, ticks, status, screen,
                   process, display>>

\* `if args.validate:` with a file validate() accepts: the success message is
\* printed and sys.exit(0) ends main() by SystemExit.
ValidateReturns ==
    /\ pc = "main"
    /\ mode = "validate"
    /\ term' = Append(term, "correct")
    /\ exit_code' = 0
    /\ pc' = "shutdown"
    /\ UNCHANGED <<mode, builds, wpc, lock, alive_workers, reg, calls, profiled,
                   ret, verdict, renders, ticks, status, screen,
                   config_file, display>>

\* validate() raises for a file it rejects: the call is outside the try block,
\* so the exception leaves main() and the interpreter ends with a failure status.
ValidateRaises ==
    /\ pc = "main"
    /\ mode = "validate"
    /\ term' = Append(term, "traceback")
    /\ exit_code' = 1
    /\ pc' = "shutdown"
    /\ UNCHANGED <<mode, builds, wpc, lock, alive_workers, reg, calls, profiled,
                   ret, verdict, renders, ticks, status, screen,
                   config_file, display>>

\* `if not args.path:` with an empty path: a message, then sys.exit(1).
PathMissing ==
    /\ pc = "main"
    /\ mode # "validate"
    /\ term' = Append(term, "no_path")
    /\ exit_code' = 1
    /\ pc' = "shutdown"
    /\ UNCHANGED <<mode, builds, wpc, lock, alive_workers, reg, calls, profiled,
                   ret, verdict, renders, ticks, status, screen,
                   config_file, display>>

\* general.Project(path, [], make, cmake): the project, with no builds yet.
CreateProject ==
    /\ pc = "main"
    /\ mode # "validate"
    /\ builds' = <<>>
    /\ pc' = "secondary_buffer"
    /\ UNCHANGED <<mode, wpc, lock, alive_workers, reg, calls, profiled,
                   ret, verdict, renders, ticks, status, screen, term,
                   process, display>>

\* parse_config finds no file at config_file_path and raises an exception that
\* main() catches.
ConfigMissing ==
    /\ pc = "parse_config"
    /\ config_file = "missing"
    /\ pc' = "except"
    /\ UNCHANGED <<mode, builds, wpc, lock, alive_workers, reg, calls, profiled,
                   ret, verdict, renders, ticks, status, screen, term,
                   process, display>>

\* analyze or parse_config raises an exception that is none of FileNotFoundError,
\* ValueError, RuntimeError, LookupError, TypeError: it leaves main(), and the
\* interpreter prints it and ends with a failure status.
UncaughtRaises ==
    /\ pc = "analyze" \/ (pc = "parse_config" /\ config_file = "exists")
    /\ term' = Append(term, "traceback")
    /\ exit_code' = 1
    /\ pc' = "shutdown"
    /\ UNCHANGED <<mode, builds, wpc, lock, alive_workers, reg, calls, profiled,
                   ret, verdict, renders, ticks, status, screen,
                   config_file, display>>

\* A KeyboardInterrupt reaches the main thread while the threads are started or
\* inform() runs: no except clause of main() catches it, and the interpreter
\* ends with a failure status (recorded as 1).
Interrupted ==
    /\ pc \in {"start_threads", "inform_check", "inform_render", "inform_sleep",
               "final_render"}
    /\ term' = Append(term, "traceback")
    /\ exit_code' = 1
    /\ pc' = "shutdown"
    /\ UNCHANGED <<mode, builds, wpc, lock, alive_workers, reg, calls, profiled,
                   ret, verdict, renders, ticks, status, screen,
                   config_file, display>>

\* main() has returned: input("Press enter to exit...") returns and
\* sys.exit(_error) ends the script with main()'s value.
PressEnter ==
    /\ pc = "returned"
    /\ exit_code' = status
    /\ pc' = "shutdown"
    /\ UNCHANGED <<mode, builds, wpc, lock, alive_workers, reg, calls, profiled,
                   ret, verdict, renders, ticks, status, screen, term,
                   config_file, display>>

\* The interpreter waits for the started (non-daemon) threads before it runs the
\* exit handlers.
ThreadsJoined == \A w \in Workers : wpc[w] \in {"created", "done", "raised"}

AtExit_NotRegistered ==
    /\ pc = "shutdown"
    /\ ThreadsJoined
    /\ pc' = "exited"
    /\ UNCHANGED <<mode, builds, wpc, lock, alive_workers, reg, calls, profiled,
                   ret, verdict, renders, ticks, status, screen, term,
                   process, display>>

\* The handler registered with atexit, _primary_buffer(), runs and the process
\* ends.
AtExit ==
    /\ pc = "shutdown"
    /\ ThreadsJoined
    /\ screen' = "primary"
    /\ term' = Append(term, "primary")
    /\ pc' = "exited"
    /\ UNCHANGED <<mode, builds, wpc, lock, alive_workers, reg, calls, profiled,
                   ret, verdict, renders, ticks, status,
                   process, display>>

(***************************************************************************)
(* Specifications                                                          *)
(***************************************************************************)
Init ==
    /\ mode \in {"pipeline", "flag"}
    /\ pc = "secondary_buffer"
    /\ builds = <<>>
    /\ wpc = <<>>
    /\ lock = NoOwner
    /\ alive_workers = 0
    /\ reg = <<>>
    /\ calls = <<>>
    /\ profiled = <<>>
    /\ ret = <<>>
    /\ verdict = <<>>
    /\ renders = 0
    /\ ticks = 0
    /\ status = NoStatus
    /\ screen = "primary"
    /\ term = <<>>
    /\ config_file = "exists"
    /\ exit_code = NoStatus
    /\ counter = <<>>
    /\ build_message = <<>>
    /\ shown = <<>>
    /\ sreg = <<>>
    /\ hist = <<>>
    /\ writers = <<>>

Next ==
    \/ SecondaryBuffer
    \/ Analyze
    \/ CollaboratorRaises
    \/ ParseConfig
    \/ StartThread
    \/ Sleep
    \/ InformCheck
    \/ InformRender
    \/ InformSleep
    \/ FinalRender
    \/ Return
    \/ Except
    \/ \E w \in Workers : IncAcquire(w)
    \/ \E w \in Workers : IncLoad(w)
    \/ \E w \in Workers : IncStore(w)
    \/ \E w \in Workers : IncRelease(w)
    \/ \E w \in Workers : BuildReturns(w)
    \/ \E w \in Workers : BuildRaises(w)
    \/ \E w \in Workers : TestExecutable(w)
    \/ \E w \in Workers : ExecutionTime(w)
    \/ \E w \in Workers : PerfStatCollect(w)
    \/ \E w \in Workers : DecAcquire(w)
    \/ \E w \in Workers : DecLoad(w)
    \/ \E w \in Workers : DecStore(w)
    \/ \E w \in Workers : DecRelease(w)

Spec == Init /\ [][Next]_vars

(***************************************************************************)
(* The scenario of a project with three builds whose builds all succeed    *)
(* and whose profiling fails the executable check for build 2 only, from   *)
(* the point where parse_config has returned and the threads are created.  *)
(***************************************************************************)
InitScenario ==
    /\ mode = "pipeline"
    /\ pc = "start_threads"
    /\ builds = <<1, 2, 3>>
    /\ verdict = <<"none", "test_executable", "none">>
    /\ wpc = [i \in 1..Len(builds) |-> "created"]
    /\ lock = NoOwner
    /\ alive_workers = 0
    /\ reg = [i \in 1..Len(builds) |-> 0]
    /\ calls = [i \in 1..Len(builds) |-> <<>>]
    /\ profiled = [i \in 1..Len(builds) |-> NoBuild]
    /\ ret = [i \in 1..Len(builds) |-> NoLine]
    /\ renders = 0
    /\ ticks = 0
    /\ status = NoStatus
    /\ screen = "secondary"
    /\ term = <<"secondary">>
    /\ config_file = "exists"
    /\ exit_code = NoStatus
    /\ counter = [i \in 1..Len(builds) |-> 0]
    /\ build_message = [i \in 1..Len(builds) |-> "None"]
    /\ shown = <<>>
    /\ sreg = [i \in 1..Len(builds) |-> NoStep]
    /\ hist = [i \in 1..Len(builds) |-> <<0>>]
    /\ writers = [i \in 1..Len(builds) |-> {}]

\* The steps of the main thread once the threads are created.
InformNext ==
    \/ StartThread
    \/ Sleep
    \/ InformCheck
    \/ InformRender
    \/ InformSleep
    \/ FinalRender
    \/ Return

\* The steps of a worker none of whose collaborators raises.
RunAllNext(w) ==
    \/ IncAcquire(w)
    \/ IncLoad(w)
    \/ IncStore(w)
    \/ IncRelease(w)
    \/ BuildReturns(w)
    \/ TestExecutable(w)
    \/ ExecutionTime(w)
    \/ PerfStatCollect(w)
    \/ DecAcquire(w)
    \/ DecLoad(w)
    \/ DecStore(w)
    \/ DecRelease(w)

NextScenario ==
    \/ StartThread
    \/ Sleep
    \/ InformCheck
    \/ InformRender
    \/ InformSleep
    \/ FinalRender
    \/ Return
    \/ \E w \in Workers : IncAcquire(w)
    \/ \E w \in Workers : IncLoad(w)
    \/ \E w \in Workers : IncStore(w)
    \/ \E w \in Workers : IncRelease(w)
    \/ \E w \in Workers : BuildReturns(w)
    \/ \E w \in Workers : TestExecutable(w)
    \/ \E w \in Workers : ExecutionTime(w)
    \/ \E w \in Workers : PerfStatCollect(w)
    \/ \E w \in Workers : DecAcquire(w)
    \/ \E w \in Workers : DecLoad(w)
    \/ \E w \in Workers : DecStore(w)
    \/ \E w \in Workers : DecRelease(w)

SpecScenario == InitScenario /\ [][NextScenario]_vars

(***************************************************************************)
(* Runs in which no collaborator raises (the only failures are profiling   *)
(* checks answering false), under fair scheduling of every thread: the     *)
(* main thread and each started worker thread keep being scheduled.        *)
(***************************************************************************)
MainSoftNext ==
    \/ SecondaryBuffer
    \/ Analyze
    \/ ParseConfig
    \/ InformNext

NextSoft ==
    \/ SecondaryBuffer
    \/ Analyze
    \/ ParseConfig
    \/ StartThread
    \/ Sleep
    \/ InformCheck
    \/ InformRender
    \/ InformSleep
    \/ FinalRender
    \/ Return
    \/ \E w \in Workers : IncAcquire(w)
    \/ \E w \in Workers : IncLoad(w)
    \/ \E w \in Workers : IncStore(w)
    \/ \E w \in Workers : IncRelease(w)
    \/ \E w \in Workers : BuildReturns(w)
    \/ \E w \in Workers : TestExecutable(w)
    \/ \E w \in Workers : ExecutionTime(w)
    \/ \E w \in Workers : PerfStatCollect(w)
    \/ \E w \in Workers : DecAcquire(w)
    \/ \E w \in Workers : DecLoad(w)
    \/ \E w \in Workers : DecStore(w)
    \/ \E w \in Workers : DecRelease(w)

SpecSoftFair ==
    /\ Init
    /\ [][NextSoft]_vars
    /\ WF_vars(MainSoftNext)
    /\ \A w \in 1..(MaxBuilds + 1) : WF_vars(w \in Workers /\ RunAllNext(w))

(***************************************************************************)
(* The whole run of the script, from the __main__ block to the end of the  *)
(* process, for every mode and with the configuration file present or not. *)
(***************************************************************************)
InitProcess ==
    /\ mode \in {"pipeline", "flag", "validate"}
    /\ pc = "register"
    /\ builds = <<>>
    /\ wpc = <<>>
    /\ lock = NoOwner
    /\ alive_workers = 0
    /\ reg = <<>>
    /\ calls = <<>>
    /\ profiled = <<>>
    /\ ret = <<>>
    /\ verdict = <<>>
    /\ renders = 0
    /\ ticks = 0
    /\ status = NoStatus
    /\ screen = "primary"
    /\ term = <<>>
    /\ config_file \in {"exists", "missing"}
    /\ exit_code = NoStatus
    /\ counter = <<>>
    /\ build_message = <<>>
    /\ shown = <<>>
    /\ sreg = <<>>
    /\ hist = <<>>
    /\ writers = <<>>

NextProcess ==
    \/ RegisterAtexit
    \/ ValidateReturns
    \/ ValidateRaises
    \/ PathMissing
    \/ CreateProject
    \/ SecondaryBuffer
    \/ Analyze
    \/ CollaboratorRaises
    \/ UncaughtRaises
    \/ ConfigMissing
    \/ ParseConfig
    \/ StartThread
    \/ Sleep
    \/ InformCheck
    \/ InformRender
    \/ InformSleep
    \/ FinalRender
    \/ Return
    \/ Except
    \/ Interrupted
    \/ PressEnter
    \/ AtExit
    \/ \E w \in Workers : IncAcquire(w)
    \/ \E w \in Workers : IncLoad(w)
    \/ \E w \in Workers : IncStore(w)
    \/ \E w \in Workers : IncRelease(w)
    \/ \E w \in Workers : BuildReturns(w)
    \/ \E w \in Workers : BuildRaises(w)
    \/ \E w \in Workers : TestExecutable(w)
    \/ \E w \in Workers : ExecutionTime(w)
    \/ \E w \in Workers : PerfStatCollect(w)
    \/ \E w \in Workers : DecAcquire(w)
    \/ \E w \in Workers : DecLoad(w)
    \/ \E w \in Workers : DecStore(w)
    \/ \E w \in Workers : DecRelease(w)

SpecProcess == InitProcess /\ [][NextProcess]_vars

(***************************************************************************)
(* The spinner alone: two builds whose workers are in the build stage and  *)
(* call step() for their own build, up to MaxCalls times each.             *)
(***************************************************************************)
MaxCalls == 16

InitSpinner ==
    /\ mode = "pipeline"
    /\ pc = "inform_check"
    /\ builds = <<1, 2>>
    /\ verdict = <<"none", "none">>
    /\ wpc = [i \in 1..Len(builds) |-> "build"]
    /\ lock = NoOwner
    /\ alive_workers = Len(builds)
    /\ reg = [i \in 1..Len(builds) |-> 0]
    /\ calls = [i \in 1..Len(builds) |-> <<>>]
    /\ profiled = [i \in 1..Len(builds) |-> NoBuild]
    /\ ret = [i \in 1..Len(builds) |-> NoLine]
    /\ renders = 0
    /\ ticks = 0
    /\ status = NoStatus
    /\ screen = "secondary"
    /\ term = <<"secondary">>
    /\ config_file = "exists"
    /\ exit_code = NoStatus
    /\ counter = [i \in 1..Len(builds) |-> 0]
    /\ build_message = [i \in 1..Len(builds) |-> "None"]
    /\ shown = <<>>
    /\ sreg = [i \in 1..Len(builds) |-> NoStep]
    /\ hist = [i \in 1..Len(builds) |-> <<0>>]
    /\ writers = [i \in 1..Len(builds) |-> {}]

NextSpinner ==
    \/ \E w \in Workers : Len(hist[w]) <= MaxCalls /\ StepLoad(w)
    \/ \E w \in Workers : StepStore(w)

SpecSpinner == InitSpinner /\ [][NextSpinner]_vars

(***************************************************************************)
(* The display while the pipeline runs: two builds whose threads are       *)
(* started and counted, each collaborator reporting while it works, the    *)
(* executable check answering false for build 1, and inform() rendering.   *)
(* A slice is stepped at most MaxSteps times before the calls in progress. *)
(***************************************************************************)
MaxSteps == 1

InitDisplay ==
    /\ mode = "pipeline"
    /\ pc = "inform_check"
    /\ builds = <<1, 2>>
    /\ verdict = <<"test_executable", "none">>
    /\ wpc = [i \in 1..Len(builds) |-> "build"]
    /\ lock = NoOwner
    /\ alive_workers = Len(builds)
    /\ reg = [i \in 1..Len(builds) |-> 0]
    /\ calls = [i \in 1..Len(builds) |-> <<>>]
    /\ profiled = [i \in 1..Len(builds) |-> NoBuild]
    /\ ret = [i \in 1..Len(builds) |-> NoLine]
    /\ renders = 0
    /\ ticks = 0
    /\ status = NoStatus
    /\ screen = "secondary"
    /\ term = <<"secondary">>
    /\ config_file = "exists"
    /\ exit_code = NoStatus
    /\ counter = [i \in 1..Len(builds) |-> 0]
    /\ build_message = [i \in 1..Len(builds) |-> "None"]
    /\ shown = <<>>
    /\ sreg = [i \in 1..Len(builds) |-> NoStep]
    /\ hist = [i \in 1..Len(builds) |-> <<0>>]
    /\ writers = [i \in 1..Len(builds) |-> {}]

NextDisplay ==
    \/ \E w \in Workers :
          /\ wpc[w] \in StagePcs
          /\ Len(hist[BuildIdToIndex(ReportedBuild(w, wpc[w]))]) <= MaxSteps
          /\ StepLoad(w)
    \/ \E w \in Workers : StepStore(w)
    \/ \E w \in Workers : PrinterPrint(w)
    \/ \E w \in Workers : BuildReturns(w)
    \/ \E w \in Workers : TestExecutable(w)
    \/ \E w \in Workers : DecAcquire(w)
    \/ \E w \in Workers : DecLoad(w)
    \/ \E w \in Workers : DecStore(w)
    \/ \E w \in Workers : DecRelease(w)
    \/ InformCheck
    \/ InformRender
    \/ InformSleep
    \/ FinalRender
    \/ Return

SpecDisplay == InitDisplay /\ [][NextDisplay]_vars

(***************************************************************************)
(* Properties                                                              *)
(***************************************************************************)
\* Worker w has left _run_all, by a return or by an exception.
Exited(w) == wpc[w] \in {"done", "raised"}

AllExited == \A w \in Workers : Exited(w)

\* Worker w has written its increment / its decrement of alive_workers.
IncStored(w) == wpc[w] \notin {"created", "inc_acquire", "inc_load", "inc_store"}

DecStored(w) == wpc[w] \in {"dec_release", "done"}

\* Every thread of the project has been started.
ThreadsLaunched ==
    /\ mode = "pipeline"
    /\ pc \in {"inform_check", "inform_render", "inform_sleep", "final_render",
               "return"}
       \/ (pc = "returned" /\ status = 0)

\* inform() has made its final render and returned.
InformReturned ==
    /\ mode = "pipeline"
    /\ pc = "return" \/ (pc = "returned" /\ status = 0)

DecrementLines == {LineTest, LineTime, LinePerf, LineEnd}

\* C1: once every worker of a project has finished by returning from _run_all,
\* whichever profiling checks answered false in whichever workers, alive_workers
\* is 0, and each of them left through one of the four decrement_workers calls.
C1_CounterReleased ==
    (Workers # {} /\ \A w \in Workers : wpc[w] = "done")
        => /\ alive_workers = 0
           /\ \A w \in Workers : ret[w] \in DecrementLines

\* Two workers have finished after failing different checks.
C1_Witness ==
    /\ \A w \in Workers : wpc[w] = "done"
    /\ \E v, w \in Workers : ret[v] = LineTest /\ ret[w] = LineTime

\* C2: when inform() has made its final render and returned, every worker has
\* left its pipeline.
C2_FinalRenderAfterWorkers == InformReturned => AllExited

\* C3: when build_for_linux has raised in a worker and main() has ended, main()
\* went through its except clause: the terminal shows the primary buffer, the
\* error message is printed and the status is 1.
C3_BuildFailureCaught ==
    ((\E w \in Workers : wpc[w] = "raised") /\ pc = "returned")
        => /\ status = 1
           /\ screen = "primary"
           /\ \E i \in 1..Len(term) : term[i] = "error"

StageOrder ==
    <<"build_for_linux", "test_executable", "execution_time", "perf_stat_collect">>

\* C4: the calls of a worker are a prefix of build, test_executable,
\* execution_time, perf_stat_collect, made after its increment, and each call
\* after the first is made only when the call before it answered true.
C4_StagesInOrder ==
    \A w \in Workers :
        /\ Len(calls[w]) <= Len(StageOrder)
        /\ calls[w] # <<>> => IncStored(w)
        /\ \A i \in 1..Len(calls[w]) :
              /\ calls[w][i].op = StageOrder[i]
              /\ i > 1 => calls[w][i - 1].ok

\* A worker whose test_executable answered false has finished, and one whose
\* execution_time answered false has.
C4_Witness ==
    /\ \E w \in Workers :
          wpc[w] = "done" /\ Len(calls[w]) = 2 /\ ~calls[w][2].ok
    /\ \E w \in Workers :
          wpc[w] = "done" /\ Len(calls[w]) = 3 /\ ~calls[w][3].ok

\* C5: under every interleaving alive_workers equals the increments written
\* minus the decrements written, and is 0 when every worker has done both.
C5_AtomicCounter ==
    /\ alive_workers = Cardinality({w \in Workers : IncStored(w)})
                       - Cardinality({w \in Workers : DecStored(w)})
    /\ (\A w \in Workers : wpc[w] = "done") => alive_workers = 0

\* One worker is inside the locked update while another waits for the lock.
C5_Witness ==
    \E v, w \in Workers :
        /\ wpc[v] \in {"inc_load", "inc_store", "dec_load", "dec_store"}
        /\ wpc[w] \in {"inc_acquire", "dec_acquire"}
        /\ alive_workers > 0

\* C6: alive_workers is never negative.
C6_NonNegative == alive_workers >= 0

\* A decrement after a failed check has just brought the counter back to 0.
C6_Witness ==
    \E w \in Workers :
        wpc[w] = "dec_release" /\ ret[w] # LineEnd /\ alive_workers = 0

\* C7: once the threads are started, alive_workers is 0 exactly when every
\* worker has exited.
C7_ZeroIffAllExited == ThreadsLaunched => (alive_workers = 0 <=> AllExited)

\* C8: inform() has rendered once for each iteration of its loop, and once more
\* when it has returned.
C8_RenderPerTick ==
    /\ pc = "inform_render" => renders = ticks - 1
    /\ pc \in {"inform_sleep", "inform_check", "final_render"} => renders = ticks
    /\ InformReturned => renders = ticks + 1

\* inform() has returned after at least one iteration of its loop.
C8_Witness == InformReturned /\ ticks >= 1 /\ pc = "returned"

\* The post-build checks of worker w that answered true.
Completed(w) == Cardinality({i \in 2..Len(calls[w]) : calls[w][i].ok})

\* The post-build checks that answer true for build b.
Passing(b) ==
    CASE verdict[b] = "none" -> 3
      [] verdict[b] = "test_executable" -> 0
      [] verdict[b] = "execution_time" -> 1
      [] verdict[b] = "perf_stat_collect" -> 2

\* C9: a worker that has finished completed the post-build stages that the
\* profiling of its own Build passes: all three for builds 1 and 3, none for
\* build 2.
C9_OwnBuildDecides ==
    \A w \in Workers : wpc[w] = "done" => Completed(w) = Passing(builds[w])

\* C10: when no collaborator raises, main() never reaches its except clause,
\* and eventually inform() has returned and main() has returned 0.
C10_SoftFailuresStayLocal ==
    /\ [](pc # "except" /\ status # 1)
    /\ <>(pc = "returned" /\ status = 0)

\* main() has returned 0 in a run where a profiling check answered false.
C10_Witness ==
    /\ pc = "returned"
    /\ status = 0
    /\ \E w \in Workers : wpc[w] = "done" /\ ret[w] \in {LineTest, LineTime, LinePerf}

\* The positions of main() inside its try block and after it.
AfterSwitch ==
    {"analyze", "parse_config", "start_threads", "inform_check", "inform_render",
     "inform_sleep", "final_render", "return", "except", "returned"}

\* C11: in a run of the pipeline whose configuration file does not exist, no
\* worker is ever created or started, alive_workers stays 0, and when main()
\* has returned its status is 1.
C11_MissingConfigFails ==
    (mode = "pipeline" /\ config_file = "missing")
        => /\ builds = <<>>
           /\ wpc = <<>>
           /\ alive_workers = 0
           /\ status \in {NoStatus, 1}
           /\ pc = "exited" /\ status # NoStatus => exit_code = 1

\* parse_config has failed on the missing file and the process has ended.
C11_Witness ==
    /\ mode = "pipeline"
    /\ config_file = "missing"
    /\ pc = "exited"
    /\ status = 1
    /\ exit_code = 1

\* C12: in validate mode, main() never gets past the validate branch: no
\* Project, no worker, the counter untouched, the terminal not switched; and
\* once the success message is printed the process ends with status 0.
C12_ValidateOnly ==
    mode = "validate"
        => /\ pc \in {"register", "main", "shutdown", "exited"}
           /\ builds = <<>>
           /\ wpc = <<>>
           /\ alive_workers = 0
           /\ \A i \in 1..Len(term) : term[i] # "secondary"
           /\ (\E i \in 1..Len(term) : term[i] = "correct")
                 => exit_code = 0 /\ status = NoStatus

\* The success message is printed and the process has ended.
C12_Witness ==
    /\ mode = "validate"
    /\ pc = "exited"
    /\ exit_code = 0
    /\ term = <<"correct", "primary">>

\* C13: the terminal is switched to the alternate buffer before anything of
\* the pipeline runs, and when the process has ended (after main() returned 0,
\* after its except clause, or after an exception that left main()) the
\* primary buffer is shown.
C13_BufferRestored ==
    /\ (pc \in AfterSwitch \/ builds # <<>>)
          => term # <<>> /\ term[1] = "secondary"
    /\ pc \in AfterSwitch \ {"except", "returned"} => screen = "secondary"
    /\ pc = "exited" => screen = "primary"

\* The process has ended after main() ran the pipeline and returned 0.
C13_Witness ==
    /\ mode = "pipeline"
    /\ pc = "exited"
    /\ status = 0
    /\ builds # <<>>
    /\ screen = "primary"

\* C14: every error message of the except clause is written right after the
\* switch to the primary buffer, and no switch back follows it.
C14_RestoredBeforeError ==
    /\ \A i \in 1..Len(term) :
          term[i] = "error" => i > 1 /\ term[i - 1] = "primary"
    /\ status = 1 => screen = "primary"

\* The except clause has run.
C14_Witness == status = 1 /\ term = <<"secondary", "primary", "error">>

\* C15: every value the frame index of a build takes is in 0..len(symbols)-1,
\* each step() moves it by one modulo len(symbols), and after len(symbols)
\* consecutive calls it is back at the value it had before the first of them.
C15_StepCycles ==
    \A i \in 1..Len(hist) :
        /\ counter[i] = hist[i][Len(hist[i])]
        /\ \A k \in 1..Len(hist[i]) :
              /\ hist[i][k] \in 0..(Len(Symbols) - 1)
              /\ k > 1 => hist[i][k] = (hist[i][k - 1] + 1) % Len(Symbols)
              /\ k > Len(Symbols) => hist[i][k] = hist[i][k - Len(Symbols)]

\* A build has been stepped len(symbols) times and more, past the wrap.
C15_Witness ==
    \E i \in 1..Len(hist) :
        /\ Len(hist[i]) > Len(Symbols) + 1
        /\ hist[i][Len(Symbols)] = Len(Symbols) - 1
        /\ hist[i][Len(Symbols) + 1] = 0

\* C16: the display slice of a build is written by the worker of that build
\* only, and no step() is lost: the frame index of a build is the number of
\* completed step() calls for it, modulo len(symbols).
C16_SingleWriter ==
    \A i \in 1..Len(writers) :
        /\ writers[i] \subseteq {i}
        /\ \A w \in Workers :
              (wpc[w] = "step_store"
                 /\ BuildIdToIndex(ReportedBuild(w, sreg[w].stage)) = i)
                 => sreg[w].val = counter[i]

\* A step of a render: inform() has called print_data once more.
Rendered == renders' = renders + 1

\* C17: a render leaves every frame index, every message and alive_workers as
\* they were, and a build nobody has reported for is drawn with the first
\* symbol and the message "None".
C17_RenderReadsOnly ==
    [][Rendered =>
          /\ counter' = counter
          /\ build_message' = build_message
          /\ alive_workers' = alive_workers
          /\ Len(shown') = Len(builds)
          /\ \A i \in 1..Len(builds) :
                /\ shown'[i].symbol = Symbols[counter[i] + 1]
                /\ shown'[i].message = build_message[i]
                /\ writers[i] = {} =>
                      shown'[i].symbol = "/" /\ shown'[i].message = "None"]_vars

\* The display has been rendered with one build reported for and the other not.
C17_Witness ==
    /\ renders > 0
    /\ \E i, j \in 1..Len(shown) :
          /\ writers[i] = {}
          /\ shown[i] = [build_id |-> builds[i], symbol |-> "/", message |-> "None"]
          /\ shown[j].message # "None"
          /\ shown[j].symbol # "/"

\* The slices in which two display states differ.
Changed(old, new) == {i \in 1..Len(old) : old[i] # new[i]}

\* C18: a step() changes the frame index of the build it is called for and no
\* other, a print() sets the message of the build it is called for to its
\* argument and changes no other; neither changes alive_workers, the screen
\* or what the terminal shows, and nothing else changes an index or a message.
C18_StepAndPrintFrames ==
    [][/\ counter' # counter =>
             /\ \E w \in Workers :
                   /\ wpc[w] = "step_store"
                   /\ wpc'[w] = sreg[w].stage
                   /\ Changed(counter, counter')
                         = {BuildIdToIndex(ReportedBuild(w, sreg[w].stage))}
             /\ build_message' = build_message
             /\ UNCHANGED <<alive_workers, lock, shown, term, screen, renders>>
       /\ build_message' # build_message =>
             /\ \E w \in Workers :
                   /\ wpc[w] \in StagePcs
                   /\ Changed(build_message, build_message')
                         = {BuildIdToIndex(ReportedBuild(w, wpc[w]))}
                   /\ build_message'[BuildIdToIndex(ReportedBuild(w, wpc[w]))]
                         = StageMessage(wpc[w])
             /\ counter' = counter
             /\ UNCHANGED <<alive_workers, lock, shown, term, screen, renders>>]_vars

\* One build has been stepped and given a message, the other is untouched.
C18_Witness ==
    \E i, j \in 1..Len(counter) :
        /\ counter[i] = 1
        /\ build_message[i] \in Messages
        /\ counter[j] = 0
        /\ build_message[j] = "None"
        /\ writers[j] = {}

\* The positions of main() in informer.inform().
InInform == {"inform_check", "inform_render", "inform_sleep", "final_render"}

\* C19: the project's threads are as many as its builds, none is left unstarted
\* once inform() has begun, and a worker has made a collaborator call only
\* after it has written its increment of alive_workers.
C19_WorkersStartedAndCounted ==
    /\ Len(wpc) = Len(builds)
    /\ (mode = "pipeline" /\ pc \in InInform)
          => \A w \in Workers : wpc[w] # "created"
    /\ \A w \in Workers :
          /\ (calls[w] # <<>> \/ wpc[w] \in StagePcs) => IncStored(w)
          /\ wpc[w] \in {"created", "inc_acquire", "inc_load", "inc_store"}
                => calls[w] = <<>>
    /\ (\A w \in Workers : IncStored(w) /\ wpc[w] \in StagePcs \cup {"inc_release"})
          => alive_workers = Len(builds)

\* inform() has begun for two builds: one worker has not yet taken the lock
\* for its increment, the other is past its build stage.
C19_Witness ==
    /\ pc \in InInform
    /\ Len(builds) = 2
    /\ \E v, w \in Workers :
          /\ wpc[v] = "inc_acquire"
          /\ calls[w] # <<>>
          /\ IncStored(w)

\* The positions of a worker between acquiring and releasing the lock.
Critical ==
    {"inc_load", "inc_store", "inc_release", "dec_load", "dec_store", "dec_release"}

\* C20: when every collaborator call returns and the threads are scheduled
\* fairly, the lock is held only by a worker inside one update of
\* alive_workers, every worker waiting for the lock gets it, and eventually
\* every worker has exited, the lock is free and main() has returned after the
\* final render.
C20_Terminates ==
    /\ [](lock # NoOwner => lock \in Workers /\ wpc[lock] \in Critical)
    /\ \A w \in 1..(MaxBuilds + 1) :
          (w \in Workers /\ wpc[w] \in {"inc_acquire", "dec_acquire"})
              ~> (w \in Workers /\ lock = w)
    /\ <>[](pc = "returned" /\ AllExited /\ lock = NoOwner /\ alive_workers = 0)

\* main() has returned after two workers exited and inform() rendered inside
\* its loop and once more after it.
C20_Witness ==
    /\ pc = "returned"
    /\ Len(builds) = 2
    /\ AllExited
    /\ alive_workers = 0
    /\ renders >= 2

====
